---- MODULE Spec2Model ----
(***************************************************************************)
(* Orchestration engine of the support chatbot: OrchestratorAgent.process, *)
(* classifyMultiIntent / classifyIntent, HandoffChain and the lazy         *)
(* AgentRegistry, as a state machine.  One request is processed at a time; *)
(* the collaborators (structured-output model, Agents, agent factories)    *)
(* are nondeterministic: every call may return any value its schema admits *)
(* or reject.                                                              *)
(***************************************************************************)
EXTENDS Integers, Sequences, FiniteSets, TLC

VARIABLES
    mode,            \* "eager" | "lazy"                (OrchestratorAgent.useLazyLoading)
    factories,       \* registry names with a factory   (AgentRegistry.factories)
    instances,       \* registry names already built    (AgentRegistry.instances)
    agentNames,      \* intent -> registry name         (LazyOrchestratorConfig.agentNames)
    maxDepth,        \* HandoffChain.maxDepth
    pc,              \* position of the request inside process()
    question,        \* the question, a sequence of characters
    conversationHistory, \* what extractConversationHistory(memory) returned
    classifierCalls, \* classifier chains invoked for this request, in order
    classification,  \* what classifyMultiIntent returned
    agents,          \* processMultiTopic: intents resolved so far (Map keys, insertion order)
    resolveIdx,      \* processMultiTopic: index of the next item to resolve
    tasks,           \* processMultiTopic: parallelMap, one record per key, insertion order
    results,         \* processMultiTopic: RunnableParallel output, in completion order
    mergeCalls,      \* number of ResultMerger.merge calls of this request
    invocations,     \* Agent.invoke calls of this request, in order
    previousResponse,\* processHandoff: the response that carried the handoffRequest
    result,          \* how process() settled
    path,            \* the branch of process() that produced the result
    haTarget,        \* isHandoffAllowed: last targetAgent argument
    haChain,         \* isHandoffAllowed: last handoffChain argument
    haResult,        \* isHandoffAllowed: last return value
    mStrategy,       \* mergeResults: strategy argument
    mResults,        \* mergeResults: results argument, entries in key order
    mSubQueries,     \* mergeResults: subQueries argument
    mMergeTime,      \* mergeResults: Date.now() - mergeStartTime
    mMerged,         \* mergeResults: how the call settled
    instanceOf,      \* AgentRegistry.instances: name -> the instance cached under it
    getAgentCalls,   \* the getAgent calls of the registry's concurrent callers
    built,           \* number of Agent instances the factories have returned
    memory,          \* extractConversationHistory: the memory argument
    historyCall,     \* extractConversationHistory: how the call settled
    cachedOrchestrator,    \* initializer: the orchestrator kept for later calls
    initializationPromise, \* initializer: the initialization later calls join
    initializations, \* initializer: the initializations started so far
    resets,          \* initializer: number of resetAgents() calls so far
    lastCall         \* initializer: what the last initializeAgents() call returned

vars == <<mode, factories, instances, agentNames, maxDepth, pc, question, conversationHistory,
          classifierCalls,
          classification, agents, resolveIdx, tasks, results, mergeCalls,
          invocations,
          previousResponse, result, path, haTarget, haChain, haResult,
          mStrategy, mResults, mSubQueries, mMergeTime, mMerged,
          instanceOf, getAgentCalls, built, memory, historyCall,
          cachedOrchestrator, initializationPromise, initializations, resets, lastCall>>

configVars == <<mode, factories, agentNames, maxDepth>>
haVars == <<haTarget, haChain, haResult>>
mergeVars == <<mStrategy, mResults, mSubQueries, mMergeTime, mMerged>>
registryVars == <<instanceOf, getAgentCalls, built>>
historyVars == <<memory, historyCall>>
initializerVars == <<cachedOrchestrator, initializationPromise, initializations, resets,
                     lastCall>>

-----------------------------------------------------------------------------
(* Bounds *)

MaxItems == 2
MaxChainLen == 3
MaxDepthArg == 3
MaxAgentMs == 1
MaxMergeMs == 1
MaxCallers == 2
MaxBuilt == 3
MaxStored == 11
MaxInitializations == 3
MaxResets == 2

-----------------------------------------------------------------------------
(* Data model *)

\* An optional field is a sequence: <<>> when unset, <<v>> when set to v.
Unset == <<>>
Some(v) == <<v>>
IsSet(o) == o # <<>>
Val(o) == o[1]
Opt(S) == {Unset} \cup {Some(v) : v \in S}

Intent == {"hr", "it", "finance", "legal", "general"}

\* Keys of the eager agents Map and of LazyOrchestratorConfig.agentNames.
AgentKeys == {"hr", "it", "finance", "legal"}

\* agentNames that name every Agent after its intent, as HRAgent, ITAgent,
\* FinanceAgent and LegalAgent name themselves.
IntentNames == [k \in AgentKeys |-> k]

\* agentNames of a registry whose Agents are registered, and named, otherwise.
RegistryNames ==
    [k \in AgentKeys |->
        CASE k = "hr" -> "hr-agent" [] k = "it" -> "it-agent"
          [] k = "finance" -> "finance-agent" [] OTHER -> "legal-agent"]

\* The name of the Agent that serves an intent: the concrete Agent classes are
\* named after their intent, a registry's Agent after its registration.
AgentName(key) == IF mode = "lazy" THEN agentNames[key] ELSE key

HandoffChainDefaultDepth == 2

\* Confidences are tenths: 5 is 0.5.  The literals process() reports.
EmptyQuestionConfidence == 5
HandoffFailedConfidence == 5
HandoffDefaultConfidence == 8

\* Confidences the classifier's model reports.  process() copies the value and
\* never branches on it, so one representative of the schema's [0, 1] is drawn.
Confidences == {9}

Range(s) == {s[i] : i \in 1..Len(s)}

\* Characters of a question: a blank and a non-blank.
Questions == {<<>>, <<" ", " ">>, <<" ", "q", " ">>}

\* What extractConversationHistory returns: undefined, or a non-empty list of
\* {role, content} turns (here: the roles).
Histories == {Unset, Some(<<"user">>)}

IsWhitespace(c) == c = " "

RECURSIVE TrimStart(_)
TrimStart(s) ==
    IF Len(s) > 0 /\ IsWhitespace(Head(s)) THEN TrimStart(Tail(s)) ELSE s

RECURSIVE TrimEnd(_)
TrimEnd(s) ==
    IF Len(s) > 0 /\ IsWhitespace(s[Len(s)])
    THEN TrimEnd(SubSeq(s, 1, Len(s) - 1)) ELSE s

Trim(s) == TrimEnd(TrimStart(s))

\* The guard without trim(): only the empty string is empty.
IsEmptyQuestion_NoTrim(q) == Len(q) = 0

\* !question || question.trim().length === 0
IsEmptyQuestion(q) == Len(q) = 0 \/ Len(Trim(q)) = 0

\* Queries handed to Agent.invoke.
Query(kind, text, previousAgent, index) ==
    [kind |-> kind, text |-> text, previousAgent |-> previousAgent, index |-> index]
QuestionQuery(q) == Query("question", q, "", 0)
EmptyPrompt == Query("empty-question prompt", <<>>, "", 0)
SubQueryOf(i) == Query("subQuery", <<>>, "", i)
NoQuery == Query("", <<>>, "", 0)

\* MultiIntentItem; the i-th item of a list carries its own subQuery.
ItemLists ==
    UNION {[1..n -> Intent] : n \in 0..MaxItems}
MkItems(f, c) ==
    [i \in 1..Len(f) |-> [intent |-> f[i], confidence |-> c, subQuery |-> SubQueryOf(i)]]

\* primaryIntent of the model's output: absent, an intent served by an Agent,
\* or one that is not.  process() copies the value and never branches on it.
PrimaryIntents == {Unset, Some("hr"), Some("general")}

\* What the structured-output call of the multi-intent chain can return.
ModelOutputs ==
    {[intents |-> MkItems(f, c), requiresMultipleAgents |-> r, primaryIntent |-> p] :
        f \in ItemLists, c \in Confidences, r \in BOOLEAN, p \in PrimaryIntents}

NoClassification ==
    [intent |-> Unset, confidence |-> Unset, intents |-> Unset,
     requiresMultipleAgents |-> Unset, primaryIntent |-> Unset, reasoning |-> Unset]

\* IntentClassification {intent, confidence, reasoning}
IntentClassification(i, conf, why) ==
    [intent |-> Some(i), confidence |-> Some(conf), intents |-> Unset,
     requiresMultipleAgents |-> Unset, primaryIntent |-> Unset, reasoning |-> Some(why)]

\* MultiIntentClassification {intents, requiresMultipleAgents, primaryIntent}
MultiIntentClassification(out) ==
    [intent |-> Unset, confidence |-> Unset, intents |-> Some(out.intents),
     requiresMultipleAgents |-> Some(out.requiresMultipleAgents),
     primaryIntent |-> out.primaryIntent, reasoning |-> Unset]

\* AgentResponse: who answered which query (metadata.agent, answer), the
\* optional handoffRequest, the sources and metadata.timings.totalMs.
AgentResponse(name, query, handoff) ==
    [agent |-> name, query |-> query, handoffRequest |-> handoff,
     sources |-> <<>>, totalMs |-> 0]

\* An AgentResponse with the given sources and metadata.timings.totalMs.
AgentResponseWith(name, sources, totalMs) ==
    [AgentResponse(name, NoQuery, Unset) EXCEPT !.sources = sources, !.totalMs = totalMs]

NoResponse == AgentResponse("", NoQuery, Unset)

NoResult ==
    [kind |-> "pending", intent |-> Unset, intents |-> Unset,
     classification |-> NoClassification, routedTo |-> Unset,
     agentResponse |-> Unset, handoffOccurred |-> Unset, handoffChain |-> Unset,
     error |-> Unset, cause |-> Unset]

\* A resolved OrchestratorResponse.
Response(intent, intents, cls, routedTo, resp, occurred, chain) ==
    [kind |-> "response", intent |-> intent, intents |-> intents,
     classification |-> cls, routedTo |-> Some(routedTo),
     agentResponse |-> Some(resp), handoffOccurred |-> occurred,
     handoffChain |-> chain, error |-> Unset, cause |-> Unset]

\* A rejection of process(): the error's class name and its cause, if any.
Rejection(errorName, cause) ==
    [NoResult EXCEPT !.kind = "rejected", !.error = Some(errorName), !.cause = cause]

OrchestratorError(cause) == Rejection("OrchestratorError", cause)

\* trace() rethrows what fn threw: the error reaches the caller as it is.
TraceRethrow(rejection) == rejection

\* An error thrown by a collaborator (an Agent's chain, an agent factory).
AgentFailure == Rejection("Error", Unset)

-----------------------------------------------------------------------------
(* HandoffChain *)

\* isHandoffAllowed without the loop check.
isHandoffAllowed_NoLoopCheck(targetAgent, handoffChain, depth) ==
    IF Len(handoffChain) >= depth THEN FALSE ELSE TRUE

\* HandoffChain.isHandoffAllowed, with this.maxDepth = depth.
isHandoffAllowed(targetAgent, handoffChain, depth) ==
    IF \E i \in 1..Len(handoffChain) : handoffChain[i] = targetAgent THEN FALSE
    ELSE IF Len(handoffChain) >= depth THEN FALSE
    ELSE TRUE

\* buildHandoffPrompt: the composite prompt the target Agent is invoked with.
HandoffPrompt(handoffRequest, previous, originalQuery) ==
    Query("handoff prompt", originalQuery, previous.agent, 0)

-----------------------------------------------------------------------------
(* Agent resolution *)

\* LazyOrchestratorConfig.agentNames: the registry name of an intent.
AgentNames(key) == agentNames[key]

\* AgentRegistry.getAgent(name): the possible outcomes, each with the cache
\* it leaves behind.  A factory may reject; nothing is cached then.
RegistryGetAgent(name, cache) ==
    IF name \in cache THEN {[status |-> "found", instances |-> cache]}
    ELSE IF name \notin factories THEN {[status |-> "notfound", instances |-> cache]}
    ELSE {[status |-> "found", instances |-> cache \cup {name}],
          [status |-> "threw", instances |-> cache]}

\* OrchestratorAgent.getAgentByIntent(intent), intent "undefined" included.
GetAgentByIntent(key, cache) ==
    IF mode = "lazy"
    THEN IF key \notin AgentKeys
         THEN {[status |-> "notfound", instances |-> cache]}
         ELSE RegistryGetAgent(AgentNames(key), cache)
    ELSE {[status |-> IF key \in AgentKeys THEN "found" ELSE "notfound",
           instances |-> cache]}

\* The key an optional intent is looked up with.
KeyOf(optIntent) == IF IsSet(optIntent) THEN Val(optIntent) ELSE "undefined"

\* Agent.invoke(query, memory): an AgentResponse, with or without a
\* handoffRequest, or a rejection.
InvokeOutcomes(name, query) ==
    {[ok |-> TRUE, response |-> AgentResponse(name, query, h)] : h \in Opt(Intent)}
    \cup {[ok |-> FALSE, response |-> NoResponse]}

\* The same for an Agent of the fan-out, whose handoffRequest nothing reads:
\* absent, or present with one target.
FanOutOutcomes(name, query) ==
    {o \in InvokeOutcomes(name, query) :
        o.ok => o.response.handoffRequest \in {Unset, Some("legal")}}

Invocation(name, query) == [agent |-> name, query |-> query]

\* One invocation of a classifier chain: which chain, its arguments, and
\* whether it returned (ok) or threw.
ClassifierCall(chain, q, history, ok) ==
    [chain |-> chain, question |-> q, conversationHistory |-> history, ok |-> ok]

-----------------------------------------------------------------------------
(* Classifier *)

\* classifyMultiIntent, lines 192-232: the value returned for a model output.
ClassifyMultiIntentResult(out) ==
    IF ~out.requiresMultipleAgents /\ Len(out.intents) = 1
    THEN IntentClassification(out.intents[1].intent, out.intents[1].confidence, "single")
    ELSE MultiIntentClassification(out)

\* process(): "requiresMultipleAgents" in classification && classification.requiresMultipleAgents
RequiresMultipleAgents(cls) ==
    IsSet(cls.requiresMultipleAgents) /\ Val(cls.requiresMultipleAgents)

-----------------------------------------------------------------------------
(* The responses process() builds *)

EmptyQuestionResponse(fallbackName, agentResponse) ==
    Response(Some("it"), Unset, IntentClassification("it", EmptyQuestionConfidence, "empty question"),
             fallbackName, agentResponse, Unset, Unset)

\* The fallback reporting the IT Agent's intent instead of the classified one.
FallbackResponse_ReportsIt(cls, agentResponse) ==
    Response(Some("it"), Unset, cls, "it", agentResponse, Unset, Unset)

FallbackResponse(cls, agentResponse) ==
    Response(cls.intent, Unset, cls, "it", agentResponse, Unset, Unset)

SingleTopicResponse(cls, agentName, agentResponse) ==
    Response(cls.intent, Unset, cls, agentName, agentResponse, Unset, Unset)

\* processHandoff with handoffOccurred = true on the unavailable-target branch.
HandoffUnavailableResult_Occurred(previous) ==
    Response(Some(previous.agent), Unset,
             IntentClassification(previous.agent, HandoffFailedConfidence, "handoff failed"),
             previous.agent, previous, Some(TRUE), Some(<<previous.agent>>))

\* processHandoff throwing on the unavailable-target branch.
HandoffUnavailableResult_Throws(previous) ==
    [NoResult EXCEPT !.kind = "rejected", !.error = Some("OrchestratorError")]

\* processHandoff, target not found: the pre-handoff response.
HandoffUnavailableResult(previous) ==
    Response(Some(previous.agent), Unset,
             IntentClassification(previous.agent, HandoffFailedConfidence, "handoff failed"),
             previous.agent, previous, Some(FALSE), Unset)

\* processHandoff returning the originating Agent's response after the handoff.
HandoffResponse_ReturnsPrevious(requestedAgent, previous, targetName, completeResponse) ==
    Response(Some(requestedAgent), Unset,
             IntentClassification(requestedAgent, HandoffDefaultConfidence, "handoff"),
             targetName, previous, Some(TRUE),
             Some(<<previous.agent, targetName>>))

\* processHandoff, target answered.
HandoffResponse(requestedAgent, previous, targetName, completeResponse) ==
    Response(Some(requestedAgent), Unset,
             IntentClassification(requestedAgent, HandoffDefaultConfidence, "handoff"),
             targetName, completeResponse, Some(TRUE),
             Some(<<previous.agent, targetName>>))

\* processMultiTopic returning intents without the top-level intent.
MultiTopicResponse_NoIntent(cls, resolved, mergedResponse) ==
    Response(Unset,
             Some([i \in 1..Len(Val(cls.intents)) |-> Val(cls.intents)[i].intent]),
             cls, resolved, mergedResponse, Unset, Unset)

\* processMultiTopic's return value.
MultiTopicResponse(cls, resolved, mergedResponse) ==
    Response(IF IsSet(cls.primaryIntent) THEN cls.primaryIntent
             ELSE IF Len(Val(cls.intents)) > 0 THEN Some(Val(cls.intents)[1].intent)
             ELSE Unset,
             Some([i \in 1..Len(Val(cls.intents)) |-> Val(cls.intents)[i].intent]),
             cls, resolved, mergedResponse, Unset, Unset)

-----------------------------------------------------------------------------
(* Multi-topic fan-out *)

HasKey(map, intent) == \E j \in 1..Len(map) : map[j].intent = intent

\* agents.set(intent, agent): a Map keeps the position of the first insertion.
MapSet(keys, intent) == IF intent \in Range(keys) THEN keys ELSE Append(keys, intent)

\* parallelMap[intent] = lambda(subQuery): a later assignment to the same key
\* replaces the earlier lambda and keeps the key's position.
ParallelMapSet(map, intent, subQuery) ==
    IF HasKey(map, intent)
    THEN [j \in 1..Len(map) |->
            IF map[j].intent = intent THEN [map[j] EXCEPT !.subQuery = subQuery]
            ELSE map[j]]
    ELSE Append(map, [intent |-> intent, subQuery |-> subQuery,
                      status |-> "pending", response |-> NoResponse])

\* The second loop of processMultiTopic over classification.intents.
RECURSIVE BuildParallelMap(_, _, _)
BuildParallelMap(items, resolved, map) ==
    IF items = <<>> THEN map
    ELSE BuildParallelMap(Tail(items), resolved,
            IF Head(items).intent \in Range(resolved)
            THEN ParallelMapSet(map, Head(items).intent, Head(items).subQuery)
            ELSE map)

ResultOf(res, intent) == CHOOSE r \in Range(res) : r.intent = intent

RECURSIVE SelectSeq2(_, _)
SelectSeq2(s, keep) ==
    IF s = <<>> THEN <<>>
    ELSE IF keep[Head(s).intent] THEN <<Head(s)>> \o SelectSeq2(Tail(s), keep)
    ELSE SelectSeq2(Tail(s), keep)

\* The "---" line sections.join puts between two sections.
SectionSeparator == [intent |-> "---", subQuery |-> NoQuery, answer |-> NoResponse]

\* sections.join(separator)
RECURSIVE Join(_, _)
Join(sections, separator) ==
    IF Len(sections) <= 1 THEN sections
    ELSE <<Head(sections), separator>> \o Join(Tail(sections), separator)

\* mergeConcatenation with one section per entry of results, in results' order.
MergeConcatenation_ResultOrder(res, subQueries) ==
    LET answered == [i \in Intent |-> HasKey(res, i)]
        kept == SelectSeq2(subQueries, answered)
        labelOf(i) == (CHOOSE sq \in Range(subQueries) : sq.intent = i).subQuery
    IN [answer |-> Join([j \in 1..Len(res) |->
                           [intent |-> res[j].intent,
                            subQuery |-> labelOf(res[j].intent),
                            answer |-> res[j].response]], SectionSeparator),
        sources |-> [j \in 1..Len(kept) |->
                       [intent |-> kept[j].intent,
                        agent |-> ResultOf(res, kept[j].intent).response.agent,
                        sources |-> ResultOf(res, kept[j].intent).response.sources]],
        agents |-> [j \in 1..Len(res) |-> res[j].response.agent],
        intents |-> [j \in 1..Len(subQueries) |-> subQueries[j].intent],
        mergeStrategy |-> "concatenation",
        timings |-> [executionMs |-> 0, mergeMs |-> 0, totalMs |-> 0]]

\* mergeConcatenation(results, subQueries).
MergeConcatenation(res, subQueries) ==
    LET answered == [i \in Intent |-> HasKey(res, i)]
        kept == SelectSeq2(subQueries, answered)
    IN [answer |-> Join([j \in 1..Len(kept) |->
                           [intent |-> kept[j].intent, subQuery |-> kept[j].subQuery,
                            answer |-> ResultOf(res, kept[j].intent).response]],
                        SectionSeparator),
        sources |-> [j \in 1..Len(kept) |->
                       [intent |-> kept[j].intent,
                        agent |-> ResultOf(res, kept[j].intent).response.agent,
                        sources |-> ResultOf(res, kept[j].intent).response.sources]],
        agents |-> [j \in 1..Len(res) |-> res[j].response.agent],
        intents |-> [j \in 1..Len(subQueries) |-> subQueries[j].intent],
        mergeStrategy |-> "concatenation",
        timings |-> [executionMs |-> 0, mergeMs |-> 0, totalMs |-> 0]]

\* The text the synthesis model returns: opaque.
SynthesizedAnswer == <<>>

\* mergeLLMSynthesis(results, originalQuery, subQueries), the model having answered.
MergeLLMSynthesis(res, originalQuery, subQueries) ==
    LET answered == [i \in Intent |-> HasKey(res, i)]
        kept == SelectSeq2(subQueries, answered)
    IN [answer |-> SynthesizedAnswer,
        sources |-> [j \in 1..Len(kept) |->
                       [intent |-> kept[j].intent,
                        agent |-> ResultOf(res, kept[j].intent).response.agent,
                        sources |-> ResultOf(res, kept[j].intent).response.sources]],
        agents |-> [j \in 1..Len(res) |-> res[j].response.agent],
        intents |-> [j \in 1..Len(subQueries) |-> subQueries[j].intent],
        mergeStrategy |-> "llm_synthesis",
        timings |-> [executionMs |-> 0, mergeMs |-> 0, totalMs |-> 0]]

\* The "# Answer Summary" heading of the structured answer.
SummaryHeading == [intent |-> "", subQuery |-> NoQuery, answer |-> NoResponse]

\* mergeStructured(results, subQueries).
MergeStructured(res, subQueries) ==
    LET answered == [i \in Intent |-> HasKey(res, i)]
        kept == SelectSeq2(subQueries, answered)
    IN [answer |-> <<SummaryHeading>> \o
                   [j \in 1..Len(kept) |->
                       [intent |-> kept[j].intent, subQuery |-> kept[j].subQuery,
                        answer |-> ResultOf(res, kept[j].intent).response]],
        sources |-> [j \in 1..Len(kept) |->
                       [intent |-> kept[j].intent,
                        agent |-> ResultOf(res, kept[j].intent).response.agent,
                        sources |-> ResultOf(res, kept[j].intent).response.sources]],
        agents |-> [j \in 1..Len(res) |-> res[j].response.agent],
        intents |-> [j \in 1..Len(subQueries) |-> subQueries[j].intent],
        mergeStrategy |-> "structured",
        timings |-> [executionMs |-> 0, mergeMs |-> 0, totalMs |-> 0]]

MergeStrategy == {"concatenation", "llm_synthesis", "structured"}

\* The strategy the orchestrator's ResultMerger is constructed with.
OrchestratorMergeStrategy == "concatenation"

\* Object.values(results).reduce((sum, r) => sum + r.metadata.timings.totalMs, 0)
RECURSIVE SumTotalMs(_)
SumTotalMs(res) ==
    IF res = <<>> THEN 0 ELSE Head(res).response.totalMs + SumTotalMs(Tail(res))

\* mergeResults leaving the Agents' times out of totalMs.
mergeResults_MergeTimeOnly(res, originalQuery, subQueries, strategy, mergeTime) ==
    LET mergedResponse ==
            CASE strategy = "concatenation" -> MergeConcatenation(res, subQueries)
              [] strategy = "llm_synthesis" ->
                    MergeLLMSynthesis(res, originalQuery, subQueries)
              [] strategy = "structured" -> MergeStructured(res, subQueries)
              [] OTHER -> MergeConcatenation(res, subQueries)
    IN [mergedResponse EXCEPT !.timings.mergeMs = mergeTime,
                              !.timings.totalMs = mergeTime]

\* mergeResults(results, originalQuery, subQueries, strategy), having spent
\* mergeTime milliseconds in the strategy.
mergeResults(res, originalQuery, subQueries, strategy, mergeTime) ==
    LET mergedResponse ==
            CASE strategy = "concatenation" -> MergeConcatenation(res, subQueries)
              [] strategy = "llm_synthesis" ->
                    MergeLLMSynthesis(res, originalQuery, subQueries)
              [] strategy = "structured" -> MergeStructured(res, subQueries)
              [] OTHER -> MergeConcatenation(res, subQueries)
        totalExecutionTime == SumTotalMs(res)
    IN [mergedResponse EXCEPT !.timings.mergeMs = mergeTime,
                              !.timings.totalMs = totalExecutionTime + mergeTime]

\* Date.now() - mergeStartTime
MergeTimes == 0..MaxMergeMs

-----------------------------------------------------------------------------
(* Initial state *)

\* The sets of names a lazy registry has factories for: every Agent, or every
\* Agent but IT, under the names the configuration gives them.
FactorySets(names) ==
    IF names = IntentNames THEN {AgentKeys, AgentKeys \ {"it"}}
    ELSE {{names[k] : k \in AgentKeys}}

RequestInit ==
    /\ pc = "idle"
    /\ question = <<>>
    /\ conversationHistory = Unset
    /\ classifierCalls = <<>>
    /\ classification = NoClassification
    /\ agents = <<>>
    /\ resolveIdx = 1
    /\ tasks = <<>>
    /\ results = <<>>
    /\ mergeCalls = 0
    /\ invocations = <<>>
    /\ previousResponse = NoResponse
    /\ result = NoResult
    /\ path = "none"

HandoffArgsInit ==
    /\ haTarget = ""
    /\ haChain = <<>>
    /\ haResult = Unset

\* How a mergeResults call stands: pending, merged (with the MergedResponse)
\* or failed.
MergeCall(status, response) == [status |-> status, response |-> response]

MergeArgsInit ==
    /\ mStrategy = OrchestratorMergeStrategy
    /\ mResults = <<>>
    /\ mSubQueries = <<>>
    /\ mMergeTime = 0
    /\ mMerged = MergeCall("pending", Unset)

\* The names the registry's callers ask for.
RequestedNames == {"hr-agent", "it-agent"}

\* The registry's concurrent callers.
Callers == 1..MaxCallers

\* How a getAgent call stands: not started, awaiting factory(), returned (an
\* instance, or undefined) or threw.
GetAgentCall(status, name, agent) == [status |-> status, name |-> name, agent |-> agent]

RegistryInit ==
    /\ instanceOf = [n \in RequestedNames |-> Unset]
    /\ getAgentCalls = [c \in Callers |-> GetAgentCall("idle", "", Unset)]
    /\ built = 0

\* A memory argument: none, one whose loadMemoryVariables rejects, one whose
\* chat_history is not an array, one whose chat_history is an array of stored
\* messages, and such an array with an entry whose getType() throws.
Memory(kind, chatHistory) == [kind |-> kind, chatHistory |-> chatHistory]

NoMemory == Memory("none", <<>>)

HistoryInit ==
    /\ memory = NoMemory
    /\ historyCall = "pending"

\* What an initializeAgents() call returned: nothing yet, the cached
\* orchestrator (built by initialization id), or the promise of initialization
\* id, which the call may have started itself.
InitializeCall(kind, id, started) == [kind |-> kind, id |-> id, started |-> started]

InitializerInit ==
    /\ cachedOrchestrator = Unset
    /\ initializationPromise = Unset
    /\ initializations = <<>>
    /\ resets = 0
    /\ lastCall = InitializeCall("none", 0, FALSE)

Init ==
    /\ mode \in {"eager", "lazy"}
    /\ agentNames \in IF mode = "lazy" THEN {IntentNames, RegistryNames} ELSE {IntentNames}
    /\ factories \in IF mode = "lazy" THEN FactorySets(agentNames) ELSE {{}}
    /\ instances = {}
    /\ maxDepth = HandoffChainDefaultDepth
    /\ RequestInit
    /\ HandoffArgsInit
    /\ MergeArgsInit
    /\ RegistryInit
    /\ HistoryInit
    /\ InitializerInit

-----------------------------------------------------------------------------
(* process() *)

Settle(r, p) ==
    /\ result' = r
    /\ path' = p
    /\ pc' = "done"

Reject(r, p) == Settle(TraceRethrow(r), p)

\* A caller invokes process(question, memory).
StartProcess ==
    /\ pc \in {"idle", "done"}
    /\ \E q \in Questions :
        /\ question' = q
        /\ pc' = IF IsEmptyQuestion(q) THEN "empty" ELSE "classify"
        /\ conversationHistory' \in IF IsEmptyQuestion(q) THEN {Unset} ELSE Histories
    /\ classifierCalls' = <<>>
    /\ classification' = NoClassification
    /\ agents' = <<>>
    /\ resolveIdx' = 1
    /\ tasks' = <<>>
    /\ results' = <<>>
    /\ mergeCalls' = 0
    /\ invocations' = <<>>
    /\ previousResponse' = NoResponse
    /\ result' = NoResult
    /\ path' = "none"
    /\ UNCHANGED <<configVars, instances, haVars, mergeVars, registryVars, historyVars, initializerVars>>

\* The empty-question guard of process().
EmptyQuestion ==
    /\ pc = "empty"
    /\ \E r \in GetAgentByIntent("it", instances) :
        /\ instances' = r.instances
        /\ CASE r.status = "notfound" ->
                    /\ Reject(OrchestratorError(Unset), "empty")
                    /\ UNCHANGED invocations
             [] r.status = "threw" ->
                    /\ Reject(AgentFailure, "empty")
                    /\ UNCHANGED invocations
             [] OTHER ->
                    \E o \in InvokeOutcomes(AgentName("it"), EmptyPrompt) :
                        /\ invocations' = Append(invocations,
                                                Invocation(AgentName("it"), EmptyPrompt))
                        /\ IF o.ok
                           THEN Settle(EmptyQuestionResponse(AgentName("it"), o.response),
                                       "empty")
                           ELSE Reject(AgentFailure, "empty")
    /\ UNCHANGED <<configVars, question, conversationHistory, classifierCalls, classification, agents,
                   resolveIdx, tasks, results, mergeCalls, previousResponse, haVars, mergeVars, registryVars, historyVars, initializerVars>>

\* classifyMultiIntent: the multi-intent chain answers.
ClassifyMultiIntent ==
    /\ pc = "classify"
    /\ \E out \in ModelOutputs :
        /\ classification' = ClassifyMultiIntentResult(out)
        /\ pc' = IF RequiresMultipleAgents(classification')
                 THEN "multi_resolve" ELSE "single"
    /\ classifierCalls' = <<ClassifierCall("multi", question, conversationHistory, TRUE)>>
    /\ UNCHANGED <<configVars, instances, question, conversationHistory, agents, resolveIdx, tasks, results,
                   mergeCalls, invocations, previousResponse, result, path, haVars, mergeVars, registryVars, historyVars, initializerVars>>

\* classifyMultiIntent: the multi-intent chain fails, classifyIntent answers.
ClassifyFallback ==
    /\ pc = "classify"
    /\ \E i \in Intent, c \in Confidences :
        classification' = IntentClassification(i, c, "fallback")
    /\ pc' = "single"
    /\ classifierCalls' = <<ClassifierCall("multi", question, conversationHistory, FALSE),
                           ClassifierCall("single", question, conversationHistory, TRUE)>>
    /\ UNCHANGED <<configVars, instances, question, conversationHistory, agents, resolveIdx, tasks, results,
                   mergeCalls, invocations, previousResponse, result, path, haVars, mergeVars, registryVars, historyVars, initializerVars>>

\* classifyIntent substituting a default intent when its chain fails.
ClassifyFailure_DefaultIntent ==
    /\ pc = "classify"
    /\ classifierCalls' = <<ClassifierCall("multi", question, conversationHistory, FALSE),
                           ClassifierCall("single", question, conversationHistory, FALSE)>>
    /\ classification' = IntentClassification("general", 0, "default")
    /\ pc' = "single"
    /\ UNCHANGED <<configVars, instances, question, conversationHistory, agents, resolveIdx,
                   tasks, results, mergeCalls, invocations, previousResponse, result,
                   path, haVars, mergeVars, registryVars, historyVars, initializerVars>>

\* classifyMultiIntent: both chains fail; classifyIntent throws OrchestratorError.
ClassifyFailure ==
    /\ pc = "classify"
    /\ classifierCalls' = <<ClassifierCall("multi", question, conversationHistory, FALSE),
                           ClassifierCall("single", question, conversationHistory, FALSE)>>
    /\ Reject(OrchestratorError(Some("Error")), "classify")
    /\ UNCHANGED <<configVars, instances, question, conversationHistory, classification, agents, resolveIdx,
                   tasks, results, mergeCalls, invocations, previousResponse, haVars, mergeVars, registryVars, historyVars, initializerVars>>

\* processSingleTopic: resolving the classified intent's Agent rejects.
SingleTopicResolveFails ==
    /\ pc = "single"
    /\ \E r \in GetAgentByIntent(KeyOf(classification.intent), instances) :
        /\ r.status = "threw"
        /\ instances' = r.instances
    /\ Reject(AgentFailure, "single")
    /\ UNCHANGED <<configVars, question, conversationHistory, classifierCalls, classification, agents,
                   resolveIdx, tasks, results, mergeCalls, invocations,
                   previousResponse, haVars, mergeVars, registryVars, historyVars, initializerVars>>

\* The fallback honouring a handoffRequest of the IT Agent's response.
SingleTopicFallback_WithHandoff ==
    /\ pc = "single"
    /\ \E r \in GetAgentByIntent(KeyOf(classification.intent), instances) :
        /\ r.status = "notfound"
        /\ \E f \in GetAgentByIntent("it", r.instances) :
            /\ instances' = f.instances
            /\ CASE f.status = "notfound" ->
                        /\ Reject(OrchestratorError(Unset), "fallback")
                        /\ UNCHANGED <<invocations, previousResponse>>
                 [] f.status = "threw" ->
                        /\ Reject(AgentFailure, "fallback")
                        /\ UNCHANGED <<invocations, previousResponse>>
                 [] OTHER ->
                        \E o \in InvokeOutcomes(AgentName("it"), QuestionQuery(question)) :
                            /\ invocations' =
                                 Append(invocations,
                                        Invocation(AgentName("it"), QuestionQuery(question)))
                            /\ IF ~o.ok
                               THEN /\ Reject(AgentFailure, "fallback")
                                    /\ UNCHANGED previousResponse
                               ELSE IF IsSet(o.response.handoffRequest)
                               THEN /\ pc' = "handoff"
                                    /\ previousResponse' = o.response
                                    /\ UNCHANGED <<result, path>>
                               ELSE /\ Settle(FallbackResponse(classification, o.response),
                                               "fallback")
                                    /\ UNCHANGED previousResponse
    /\ UNCHANGED <<configVars, question, conversationHistory, classifierCalls,
                   classification, agents, resolveIdx, tasks, results, mergeCalls, haVars, mergeVars, registryVars, historyVars, initializerVars>>

\* processSingleTopic: no Agent for the intent, the IT Agent answers instead.
SingleTopicFallback ==
    /\ pc = "single"
    /\ \E r \in GetAgentByIntent(KeyOf(classification.intent), instances) :
        /\ r.status = "notfound"
        /\ \E f \in GetAgentByIntent("it", r.instances) :
            /\ instances' = f.instances
            /\ CASE f.status = "notfound" ->
                        /\ Reject(OrchestratorError(Unset), "fallback")
                        /\ UNCHANGED invocations
                 [] f.status = "threw" ->
                        /\ Reject(AgentFailure, "fallback")
                        /\ UNCHANGED invocations
                 [] OTHER ->
                        \E o \in InvokeOutcomes(AgentName("it"), QuestionQuery(question)) :
                            /\ invocations' =
                                 Append(invocations,
                                        Invocation(AgentName("it"), QuestionQuery(question)))
                            /\ IF o.ok
                               THEN Settle(FallbackResponse(classification, o.response),
                                           "fallback")
                               ELSE Reject(AgentFailure, "fallback")
    /\ UNCHANGED <<configVars, question, conversationHistory, classifierCalls, classification, agents,
                   resolveIdx, tasks, results, mergeCalls, previousResponse, haVars, mergeVars, registryVars, historyVars, initializerVars>>

\* processSingleTopic: the classified intent's Agent is invoked.
SingleTopicInvoke ==
    /\ pc = "single"
    /\ \E r \in GetAgentByIntent(KeyOf(classification.intent), instances) :
        /\ r.status = "found"
        /\ instances' = r.instances
    /\ LET name == AgentName(Val(classification.intent)) IN
       \E o \in InvokeOutcomes(name, QuestionQuery(question)) :
        /\ invocations' = Append(invocations, Invocation(name, QuestionQuery(question)))
        /\ IF ~o.ok
           THEN /\ Reject(AgentFailure, "single")
                /\ UNCHANGED previousResponse
           ELSE IF IsSet(o.response.handoffRequest)
           THEN /\ pc' = "handoff"
                /\ previousResponse' = o.response
                /\ UNCHANGED <<result, path>>
           ELSE /\ Settle(SingleTopicResponse(classification, name, o.response), "single")
                /\ UNCHANGED previousResponse
    /\ UNCHANGED <<configVars, question, conversationHistory, classifierCalls, classification, agents,
                   resolveIdx, tasks, results, mergeCalls, haVars, mergeVars, registryVars, historyVars, initializerVars>>

\* processHandoff following a handoffRequest of the target's own response.
ProcessHandoff_FollowsTarget ==
    /\ pc = "handoff"
    /\ LET requestedAgent == Val(previousResponse.handoffRequest) IN
       \E r \in GetAgentByIntent(requestedAgent, instances) :
        /\ instances' = r.instances
        /\ CASE r.status = "notfound" ->
                    /\ Settle(HandoffUnavailableResult(previousResponse),
                              "handoff-unavailable")
                    /\ UNCHANGED <<invocations, previousResponse>>
             [] r.status = "threw" ->
                    /\ Reject(AgentFailure, "handoff")
                    /\ UNCHANGED <<invocations, previousResponse>>
             [] OTHER ->
                    LET prompt == HandoffPrompt(previousResponse.handoffRequest,
                                                previousResponse, question)
                        name == AgentName(requestedAgent)
                    IN \E o \in InvokeOutcomes(name, prompt) :
                        /\ invocations' = Append(invocations, Invocation(name, prompt))
                        /\ IF ~o.ok
                           THEN /\ Reject(AgentFailure, "handoff")
                                /\ UNCHANGED previousResponse
                           ELSE IF IsSet(o.response.handoffRequest)
                           THEN /\ pc' = "handoff"
                                /\ previousResponse' = o.response
                                /\ UNCHANGED <<result, path>>
                           ELSE /\ Settle(HandoffResponse(requestedAgent, previousResponse,
                                                          name, o.response), "handoff")
                                /\ UNCHANGED previousResponse
    /\ UNCHANGED <<configVars, question, conversationHistory, classifierCalls, classification, agents,
                   resolveIdx, tasks, results, mergeCalls, haVars, mergeVars, registryVars, historyVars, initializerVars>>

\* OrchestratorAgent.processHandoff together with HandoffChain.processHandoff.
ProcessHandoff ==
    /\ pc = "handoff"
    /\ LET requestedAgent == Val(previousResponse.handoffRequest) IN
       \E r \in GetAgentByIntent(requestedAgent, instances) :
        /\ instances' = r.instances
        /\ CASE r.status = "notfound" ->
                    /\ Settle(HandoffUnavailableResult(previousResponse),
                              "handoff-unavailable")
                    /\ UNCHANGED invocations
             [] r.status = "threw" ->
                    /\ Reject(AgentFailure, "handoff")
                    /\ UNCHANGED invocations
             [] OTHER ->
                    LET prompt == HandoffPrompt(previousResponse.handoffRequest,
                                                previousResponse, question)
                        name == AgentName(requestedAgent)
                    IN \E o \in InvokeOutcomes(name, prompt) :
                        /\ invocations' = Append(invocations, Invocation(name, prompt))
                        /\ IF o.ok
                           THEN Settle(HandoffResponse(requestedAgent, previousResponse,
                                                       name, o.response), "handoff")
                           ELSE Reject(AgentFailure, "handoff")
    /\ UNCHANGED <<configVars, question, conversationHistory, classifierCalls, classification, agents,
                   resolveIdx, tasks, results, mergeCalls, previousResponse, haVars, mergeVars, registryVars, historyVars, initializerVars>>

\* The first loop of processMultiTopic failing the request at the first item
\* without an Agent.
MultiTopicResolve_FailsOnMissing ==
    /\ pc = "multi_resolve"
    /\ resolveIdx <= Len(Val(classification.intents))
    /\ LET intent == Val(classification.intents)[resolveIdx].intent IN
       \E r \in GetAgentByIntent(intent, instances) :
        /\ instances' = r.instances
        /\ CASE r.status = "found" ->
                    /\ agents' = MapSet(agents, intent)
                    /\ resolveIdx' = resolveIdx + 1
                    /\ UNCHANGED <<pc, result, path>>
             [] r.status = "notfound" ->
                    /\ Reject(OrchestratorError(Unset), "multi")
                    /\ UNCHANGED <<agents, resolveIdx>>
             [] OTHER ->
                    /\ Reject(AgentFailure, "multi")
                    /\ UNCHANGED <<agents, resolveIdx>>
    /\ UNCHANGED <<configVars, question, conversationHistory, classifierCalls, classification, tasks,
                   results, mergeCalls, invocations, previousResponse, haVars, mergeVars, registryVars, historyVars, initializerVars>>

\* processMultiTopic, first loop: resolve the Agent of the next item.
MultiTopicResolve ==
    /\ pc = "multi_resolve"
    /\ resolveIdx <= Len(Val(classification.intents))
    /\ LET intent == Val(classification.intents)[resolveIdx].intent IN
       \E r \in GetAgentByIntent(intent, instances) :
        /\ instances' = r.instances
        /\ CASE r.status = "found" ->
                    /\ agents' = MapSet(agents, intent)
                    /\ resolveIdx' = resolveIdx + 1
                    /\ UNCHANGED <<pc, result, path>>
             [] r.status = "notfound" ->
                    /\ resolveIdx' = resolveIdx + 1
                    /\ UNCHANGED <<agents, pc, result, path>>
             [] OTHER ->
                    /\ Reject(AgentFailure, "multi")
                    /\ UNCHANGED <<agents, resolveIdx>>
    /\ UNCHANGED <<configVars, question, conversationHistory, classifierCalls, classification, tasks,
                   results, mergeCalls, invocations, previousResponse, haVars, mergeVars, registryVars, historyVars, initializerVars>>

\* processMultiTopic: nothing resolved, or the parallel chain is started.
MultiTopicLaunch ==
    /\ pc = "multi_resolve"
    /\ resolveIdx > Len(Val(classification.intents))
    /\ IF Len(agents) = 0
       THEN /\ Reject(OrchestratorError(Unset), "multi")
            /\ UNCHANGED <<tasks, invocations>>
       ELSE /\ tasks' = BuildParallelMap(Val(classification.intents), agents, <<>>)
            /\ invocations' = invocations \o
                 [j \in 1..Len(tasks') |->
                    Invocation(AgentName(tasks'[j].intent), tasks'[j].subQuery)]
            /\ pc' = "multi_run"
            /\ UNCHANGED <<result, path>>
    /\ UNCHANGED <<configVars, instances, question, conversationHistory, classifierCalls, classification,
                   agents, resolveIdx, results, mergeCalls, previousResponse, haVars, mergeVars, registryVars, historyVars, initializerVars>>

Pending(j) == j \in 1..Len(tasks) /\ tasks[j].status = "pending"

\* One Agent of the fan-out answers.
TaskSucceeds ==
    /\ pc \in {"multi_run", "done"}
    /\ \E j \in 1..Len(tasks) :
        /\ Pending(j)
        /\ \E o \in FanOutOutcomes(AgentName(tasks[j].intent), tasks[j].subQuery) :
            /\ o.ok
            /\ tasks' = [tasks EXCEPT ![j].status = "ok", ![j].response = o.response]
            /\ results' = Append(results, [intent |-> tasks[j].intent,
                                           response |-> o.response])
    /\ pc' = IF pc = "multi_run" /\ \A k \in 1..Len(tasks') : tasks'[k].status = "ok"
             THEN "merge" ELSE pc
    /\ UNCHANGED <<configVars, instances, question, conversationHistory, classifierCalls, classification,
                   agents, resolveIdx, mergeCalls, invocations, previousResponse,
                   result, path, haVars, mergeVars, registryVars, historyVars, initializerVars>>

\* A failed invoke that does not fail the aggregate: the rest is merged.
TaskFails_MergesTheRest ==
    /\ pc \in {"multi_run", "done"}
    /\ \E j \in 1..Len(tasks) :
        /\ Pending(j)
        /\ tasks' = [tasks EXCEPT ![j].status = "failed"]
    /\ pc' = IF pc = "multi_run" /\ \A k \in 1..Len(tasks') : tasks'[k].status # "pending"
             THEN "merge" ELSE pc
    /\ UNCHANGED <<configVars, instances, question, conversationHistory, classifierCalls, classification,
                   agents, resolveIdx, results, mergeCalls, invocations,
                   previousResponse, result, path, haVars, mergeVars, registryVars, historyVars, initializerVars>>

\* One Agent of the fan-out rejects: Promise.all rejects at the first failure.
TaskFails ==
    /\ pc \in {"multi_run", "done"}
    /\ \E j \in 1..Len(tasks) :
        /\ Pending(j)
        /\ tasks' = [tasks EXCEPT ![j].status = "failed"]
    /\ IF pc = "multi_run"
       THEN Reject(AgentFailure, "multi")
       ELSE UNCHANGED <<pc, result, path>>
    /\ UNCHANGED <<configVars, instances, question, conversationHistory, classifierCalls, classification,
                   agents, resolveIdx, results, mergeCalls, invocations,
                   previousResponse, haVars, mergeVars, registryVars, historyVars, initializerVars>>

\* All Agents answered: merge and return.
MultiTopicMerge ==
    /\ pc = "merge"
    /\ mergeCalls' = mergeCalls + 1
    /\ \E mergeTime \in MergeTimes :
        Settle(MultiTopicResponse(classification, agents,
                                  mergeResults(results, question,
                                               Val(classification.intents),
                                               OrchestratorMergeStrategy, mergeTime)),
               "multi")
    /\ UNCHANGED <<configVars, instances, question, conversationHistory, classifierCalls, classification,
                   agents, resolveIdx, tasks, results, invocations, previousResponse,
                   haVars, mergeVars, registryVars, historyVars, initializerVars>>

Next ==
    \/ StartProcess
    \/ EmptyQuestion
    \/ ClassifyMultiIntent
    \/ ClassifyFallback
    \/ ClassifyFailure
    \/ SingleTopicResolveFails
    \/ SingleTopicFallback
    \/ SingleTopicInvoke
    \/ ProcessHandoff
    \/ MultiTopicResolve
    \/ MultiTopicLaunch
    \/ TaskSucceeds
    \/ TaskFails
    \/ MultiTopicMerge

Spec == Init /\ [][Next]_vars

-----------------------------------------------------------------------------
(* HandoffChain.isHandoffAllowed on its own: any maxDepth, target and chain *)

Chains == UNION {[1..n -> Intent] : n \in 0..MaxChainLen}

InitHandoffAllowed ==
    /\ mode = "eager"
    /\ agentNames = IntentNames
    /\ factories = {}
    /\ instances = {}
    /\ maxDepth \in 0..MaxDepthArg
    /\ RequestInit
    /\ haTarget \in Intent
    /\ haChain \in Chains
    /\ haResult = Unset
    /\ MergeArgsInit
    /\ RegistryInit
    /\ HistoryInit
    /\ InitializerInit

\* A caller evaluates isHandoffAllowed(haTarget, haChain).
CallIsHandoffAllowed ==
    /\ haResult = Unset
    /\ haResult' = Some(isHandoffAllowed(haTarget, haChain, maxDepth))
    /\ UNCHANGED <<configVars, instances, pc, question, conversationHistory, classifierCalls, classification,
                   agents, resolveIdx, tasks, results, mergeCalls, invocations,
                   previousResponse, result, path, haTarget, haChain, mergeVars, registryVars, historyVars, initializerVars>>

NextHandoffAllowed == CallIsHandoffAllowed

SpecHandoffAllowed == InitHandoffAllowed /\ [][NextHandoffAllowed]_vars

-----------------------------------------------------------------------------
(* mergeResults on its own: any strategy, results and sub-queries *)

\* Intents that have an entry in results.
MergeIntents == {"hr", "it"}

\* AgentResponse.sources: nothing retrieved, or one document.
MergeSources == {<<>>, <<"doc">>}

\* AgentResponse.metadata.timings.totalMs
AgentTimes == 0..MaxAgentMs

\* The entries results can hold under one key.
ResultEntries(k) ==
    {[intent |-> k, response |-> AgentResponseWith(RegistryNames[k], src, t)] :
        src \in MergeSources, t \in AgentTimes}

\* Record<string, AgentResponse>: at most one entry per key, in any key order.
ResultMaps ==
    {<<>>}
    \cup UNION {{<<a>> : a \in ResultEntries(k)} : k \in MergeIntents}
    \cup UNION {UNION {{<<a, b>> : a \in ResultEntries(k), b \in ResultEntries(l)} :
                           l \in MergeIntents \ {k}} : k \in MergeIntents}

\* The classified items handed over as subQueries.
SubQueryLists == {MkItems(f, c) : f \in ItemLists, c \in Confidences}

\* processMultiTopic hands over results keyed by intents of the items.
InitMerge ==
    /\ mode = "eager"
    /\ agentNames = IntentNames
    /\ factories = {}
    /\ instances = {}
    /\ maxDepth = HandoffChainDefaultDepth
    /\ RequestInit
    /\ HandoffArgsInit
    /\ mStrategy \in MergeStrategy
    /\ mSubQueries \in SubQueryLists
    /\ mResults \in {r \in ResultMaps :
                        \A j \in 1..Len(r) : HasKey(mSubQueries, r[j].intent)}
    /\ mMergeTime = 0
    /\ mMerged = MergeCall("pending", Unset)
    /\ RegistryInit
    /\ HistoryInit
    /\ InitializerInit

\* A caller evaluates mergeResults(mResults, question, mSubQueries, mStrategy).
CallMergeResults ==
    /\ mMerged.status = "pending"
    /\ \E mergeTime \in MergeTimes :
        /\ mMergeTime' = mergeTime
        /\ mMerged' = MergeCall("merged",
                                Some(mergeResults(mResults, question, mSubQueries,
                                                  mStrategy, mergeTime)))
    /\ UNCHANGED <<configVars, instances, pc, question, conversationHistory,
                   classifierCalls, classification, agents, resolveIdx, tasks, results,
                   mergeCalls, invocations, previousResponse, result, path, haVars,
                   mStrategy, mResults, mSubQueries, registryVars, historyVars, initializerVars>>

\* The synthesis model's call rejects: mergeLLMSynthesis, and with it
\* mergeResults, rejects.
MergeSynthesisFails ==
    /\ mMerged.status = "pending"
    /\ mStrategy = "llm_synthesis"
    /\ mMerged' = MergeCall("failed", Unset)
    /\ UNCHANGED <<configVars, instances, pc, question, conversationHistory,
                   classifierCalls, classification, agents, resolveIdx, tasks, results,
                   mergeCalls, invocations, previousResponse, result, path, haVars,
                   mStrategy, mResults, mSubQueries, mMergeTime, registryVars, historyVars, initializerVars>>

NextMerge ==
    \/ CallMergeResults
    \/ MergeSynthesisFails

SpecMerge == InitMerge /\ [][NextMerge]_vars

-----------------------------------------------------------------------------
(* AgentRegistry on its own: concurrent getAgent calls and clearInstances *)

requestVars == <<pc, question, conversationHistory, classifierCalls, classification,
                 agents, resolveIdx, tasks, results, mergeCalls, invocations,
                 previousResponse, result, path>>

InitRegistry ==
    /\ mode = "lazy"
    /\ agentNames = RegistryNames
    /\ factories \in {RequestedNames, {"hr-agent"}}
    /\ instances = {}
    /\ maxDepth = HandoffChainDefaultDepth
    /\ RequestInit
    /\ HandoffArgsInit
    /\ MergeArgsInit
    /\ RegistryInit
    /\ HistoryInit
    /\ InitializerInit

\* getAgent(name) up to its first await: a cached instance or undefined is
\* returned at once, otherwise factory() is called and awaited.
GetAgentBegin(c) ==
    /\ getAgentCalls[c].status # "factory"
    /\ \E name \in RequestedNames :
        getAgentCalls' = [getAgentCalls EXCEPT ![c] =
            IF name \in instances THEN GetAgentCall("returned", name, instanceOf[name])
            ELSE IF name \notin factories THEN GetAgentCall("returned", name, Unset)
            ELSE GetAgentCall("factory", name, Unset)]
    /\ UNCHANGED <<configVars, instances, requestVars, haVars, mergeVars, instanceOf, built, historyVars, initializerVars>>

\* factory() resolves with a new instance: getAgent stores it under the name
\* and returns it.
FactoryResolves(c) ==
    /\ getAgentCalls[c].status = "factory"
    /\ built < MaxBuilt
    /\ built' = built + 1
    /\ instances' = instances \cup {getAgentCalls[c].name}
    /\ instanceOf' = [instanceOf EXCEPT ![getAgentCalls[c].name] = Some(built')]
    /\ getAgentCalls' = [getAgentCalls EXCEPT ![c] =
            GetAgentCall("returned", getAgentCalls[c].name, Some(built'))]
    /\ UNCHANGED <<configVars, requestVars, haVars, mergeVars, historyVars, initializerVars>>

\* factory() rejects: getAgent rejects, the cache is left as it is.
FactoryRejects(c) ==
    /\ getAgentCalls[c].status = "factory"
    /\ getAgentCalls' = [getAgentCalls EXCEPT ![c] =
            GetAgentCall("threw", getAgentCalls[c].name, Unset)]
    /\ UNCHANGED <<configVars, instances, requestVars, haVars, mergeVars, instanceOf, built, historyVars, initializerVars>>

\* clearInstances()
ClearInstances ==
    /\ instances # {}
    /\ instances' = {}
    /\ instanceOf' = [n \in RequestedNames |-> Unset]
    /\ UNCHANGED <<configVars, requestVars, haVars, mergeVars, getAgentCalls, built, historyVars, initializerVars>>

NextRegistry ==
    \/ \E c \in Callers : GetAgentBegin(c)
    \/ \E c \in Callers : FactoryResolves(c)
    \/ \E c \in Callers : FactoryRejects(c)
    \/ ClearInstances

SpecRegistry == InitRegistry /\ [][NextRegistry]_vars

-----------------------------------------------------------------------------
(* extractConversationHistory on its own: any memory *)

\* chatHistory.slice(-10)
HistoryWindow == 10

\* array.slice(-n): the last n entries.
LastOf(array, n) ==
    IF Len(array) <= n THEN array ELSE SubSeq(array, Len(array) - n + 1, Len(array))

\* What a stored entry is: a BaseMessage, another object, or not an object.
MessageForms == {"BaseMessage", "object", "other"}

\* getType() of the BaseMessages, getType() or constructor name of the other
\* objects, by stored position.
TypeAt(form, i) ==
    IF form = "BaseMessage" THEN <<"human", "ai", "system", "tool">>[(i % 4) + 1]
    ELSE <<"HumanMessage", "AIMessage", "SystemMessage", "Object">>[(i % 4) + 1]

\* The stored entry at position i: its content is empty or the text <<i>>.
StoredMessage(form, i, content) ==
    [form |-> form, type |-> TypeAt(form, i), content |-> content]

\* The chat_history array of n entries of one form whose entries at the
\* positions in empty have no content.
StoredList(form, n, empty) ==
    [i \in 1..n |-> StoredMessage(form, i, IF i \in empty THEN <<>> ELSE <<i>>)]

\* The role a BaseMessage's getType() is normalised to.
BaseMessageRole(messageType) ==
    IF messageType \in {"human", "HumanMessage"} THEN "user"
    ELSE IF messageType \in {"ai", "AIMessage", "assistant"} THEN "assistant"
    ELSE IF messageType \in {"system", "SystemMessage"} THEN "system"
    ELSE "user"

\* The role another object's type name is normalised to.
ObjectRole(messageType) ==
    IF messageType \in {"HumanMessage", "human"} THEN "user"
    ELSE IF messageType \in {"AIMessage", "ai", "AssistantMessage"} THEN "assistant"
    ELSE IF messageType \in {"SystemMessage", "system"} THEN "system"
    ELSE "user"

\* The value the map callback returns for a non-object.
NullTurn == [role |-> "", content |-> <<>>, isNull |-> TRUE]

\* The callback of chatHistory.slice(-10).map.
NormalizeMessage(msg) ==
    IF msg.form = "BaseMessage"
    THEN [role |-> BaseMessageRole(msg.type), content |-> msg.content, isNull |-> FALSE]
    ELSE IF msg.form = "object"
    THEN [role |-> ObjectRole(msg.type), content |-> msg.content, isNull |-> FALSE]
    ELSE NullTurn

\* A {role, content} turn of the conversation history.
Turn(m) == [role |-> m.role, content |-> m.content]

\* How an extractConversationHistory call settles.
HistoryOutcome(status, history) == [status |-> status, history |-> history]

\* extractConversationHistory keeping every stored entry.
ExtractConversationHistory_NoWindow(mem) ==
    IF mem.kind = "none" THEN HistoryOutcome("returned", Unset)
    ELSE IF mem.kind \in {"throws", "getTypeThrows"} THEN HistoryOutcome("returned", Unset)
    ELSE IF mem.kind = "array" /\ Len(mem.chatHistory) > 0
    THEN LET mapped == [i \in 1..Len(mem.chatHistory) |->
                          NormalizeMessage(mem.chatHistory[i])]
             kept == SelectSeq(mapped, LAMBDA m : ~m.isNull /\ Len(m.content) > 0)
             conversation == [i \in 1..Len(kept) |-> Turn(kept[i])]
         IN HistoryOutcome("returned",
                           IF Len(conversation) > 0 THEN Some(conversation) ELSE Unset)
    ELSE HistoryOutcome("returned", Unset)

\* extractConversationHistory(memory)
ExtractConversationHistory(mem) ==
    IF mem.kind = "none" THEN HistoryOutcome("returned", Unset)
    ELSE IF mem.kind \in {"throws", "getTypeThrows"} THEN HistoryOutcome("returned", Unset)
    ELSE IF mem.kind = "array" /\ Len(mem.chatHistory) > 0
    THEN LET last == LastOf(mem.chatHistory, HistoryWindow)
             mapped == [i \in 1..Len(last) |-> NormalizeMessage(last[i])]
             kept == SelectSeq(mapped, LAMBDA m : ~m.isNull /\ Len(m.content) > 0)
             conversation == [i \in 1..Len(kept) |-> Turn(kept[i])]
         IN HistoryOutcome("returned",
                           IF Len(conversation) > 0 THEN Some(conversation) ELSE Unset)
    ELSE HistoryOutcome("returned", Unset)

InitHistory ==
    /\ mode = "eager"
    /\ agentNames = IntentNames
    /\ factories = {}
    /\ instances = {}
    /\ maxDepth = HandoffChainDefaultDepth
    /\ RequestInit
    /\ HandoffArgsInit
    /\ MergeArgsInit
    /\ RegistryInit
    /\ \/ memory \in {NoMemory, Memory("throws", <<>>), Memory("string", <<>>)}
       \/ \E kind \in {"array", "getTypeThrows"}, form \in MessageForms,
             n \in 0..MaxStored :
            \E empty \in SUBSET (1..n) : memory = Memory(kind, StoredList(form, n, empty))
    /\ historyCall = "pending"
    /\ InitializerInit

\* process() awaits extractConversationHistory(memory).
CallExtractConversationHistory ==
    /\ historyCall = "pending"
    /\ LET outcome == ExtractConversationHistory(memory) IN
        /\ historyCall' = outcome.status
        /\ conversationHistory' = outcome.history
    /\ UNCHANGED <<configVars, instances, pc, question, classifierCalls, classification,
                   agents, resolveIdx, tasks, results, mergeCalls, invocations,
                   previousResponse, result, path, haVars, mergeVars, registryVars,
                   memory, initializerVars>>

NextHistory == CallExtractConversationHistory

SpecHistory == InitHistory /\ [][NextHistory]_vars

-----------------------------------------------------------------------------
(* initializeAgents / resetAgents: the module-level orchestrator cache *)

\* An initialization: the async function started by an initializeAgents()
\* call, pending until it has built the orchestrator or failed; epoch is the
\* number of resets that preceded its start.
Initialization(status, epoch) == [status |-> status, epoch |-> epoch]

InitInitializer ==
    /\ mode = "eager"
    /\ agentNames = IntentNames
    /\ factories = {}
    /\ instances = {}
    /\ maxDepth = HandoffChainDefaultDepth
    /\ RequestInit
    /\ HandoffArgsInit
    /\ MergeArgsInit
    /\ RegistryInit
    /\ HistoryInit
    /\ InitializerInit

\* initializeAgents(): the cached orchestrator, else the stored promise, else
\* a new initialization whose promise is stored and returned.
InitializeAgents ==
    /\ IF IsSet(cachedOrchestrator)
       THEN /\ lastCall' = InitializeCall("orchestrator", Val(cachedOrchestrator), FALSE)
            /\ UNCHANGED <<initializationPromise, initializations>>
       ELSE IF IsSet(initializationPromise)
       THEN /\ lastCall' = InitializeCall("promise", Val(initializationPromise), FALSE)
            /\ UNCHANGED <<initializationPromise, initializations>>
       ELSE /\ Len(initializations) < MaxInitializations
            /\ initializations' = Append(initializations, Initialization("pending", resets))
            /\ initializationPromise' = Some(Len(initializations'))
            /\ lastCall' = InitializeCall("promise", Len(initializations'), TRUE)
    /\ UNCHANGED <<configVars, instances, requestVars, haVars, mergeVars, registryVars,
                   historyVars, cachedOrchestrator, resets>>

\* An initialization builds its orchestrator: it stores it as the cached
\* orchestrator and clears the stored promise.
InitializationResolves(i) ==
    /\ i \in 1..Len(initializations)
    /\ initializations[i].status = "pending"
    /\ initializations' = [initializations EXCEPT ![i].status = "resolved"]
    /\ cachedOrchestrator' = Some(i)
    /\ initializationPromise' = Unset
    /\ UNCHANGED <<configVars, instances, requestVars, haVars, mergeVars, registryVars,
                   historyVars, resets, lastCall>>

\* An initialization fails (a vector store cannot be loaded or created): its
\* promise rejects, the module's variables are left as they are.
InitializationRejects(i) ==
    /\ i \in 1..Len(initializations)
    /\ initializations[i].status = "pending"
    /\ initializations' = [initializations EXCEPT ![i].status = "rejected"]
    /\ UNCHANGED <<configVars, instances, requestVars, haVars, mergeVars, registryVars,
                   historyVars, cachedOrchestrator, initializationPromise, resets, lastCall>>

\* resetAgents()
ResetAgents ==
    /\ resets < MaxResets
    /\ resets' = resets + 1
    /\ cachedOrchestrator' = Unset
    /\ initializationPromise' = Unset
    /\ UNCHANGED <<configVars, instances, requestVars, haVars, mergeVars, registryVars,
                   historyVars, initializations, lastCall>>

NextInitializer ==
    \/ InitializeAgents
    \/ \E i \in 1..MaxInitializations : InitializationResolves(i)
    \/ \E i \in 1..MaxInitializations : InitializationRejects(i)
    \/ ResetAgents

SpecInitializer == InitInitializer /\ [][NextInitializer]_vars

-----------------------------------------------------------------------------
(* Properties *)

Done == pc = "done"
Responded == Done /\ result.kind = "response"
Rejected == Done /\ result.kind = "rejected"

\* The request went through processHandoff.
HandoffRequested == previousResponse # NoResponse
RequestedAgent == Val(previousResponse.handoffRequest)

\* getAgentByIntent finds no Agent for the key: it neither returns one nor throws.
Unresolvable(key) ==
    \A r \in GetAgentByIntent(key, instances) : r.status = "notfound"

HandoffInvocations == {k \in 1..Len(invocations) : invocations[k].query.kind = "handoff prompt"}
SingleTopicInvocations ==
    {k \in 1..Len(invocations) : invocations[k].query.kind \in {"question", "handoff prompt"}}

\* The classifier chains invoked for the request, in order.
ChainsCalled == [k \in 1..Len(classifierCalls) |-> classifierCalls[k].chain]

NoDuplicates(s) == \A i, j \in 1..Len(s) : i # j => s[i] # s[j]

\* C1: every executed handoff targets an Agent that is not yet in the request's
\* handoff chain: no Agent is invoked twice in a single-topic request and the
\* returned handoffChain holds no Agent twice.
C1_LoopPrevention ==
    /\ \A i, j \in SingleTopicInvocations : i # j => invocations[i].agent # invocations[j].agent
    /\ (Responded /\ IsSet(result.handoffChain)) => NoDuplicates(Val(result.handoffChain))

\* C2: at most maxDepth Agents take part in a single-topic request: at most
\* one handoff is executed, the returned handoffChain has at most maxDepth
\* entries, and the request is settled by the handoff target's response even
\* when that response carries a handoffRequest of its own.
C2_DepthBound ==
    /\ Cardinality(HandoffInvocations) <= 1
    /\ Cardinality(SingleTopicInvocations) <= maxDepth
    /\ (Responded /\ IsSet(result.handoffChain)) => Len(Val(result.handoffChain)) <= maxDepth
    /\ HandoffInvocations # {} => Done

\* C2 witness: the target answered with a handoffRequest of its own and the
\* request is settled with that answer.
C2_Witness ==
    /\ Responded
    /\ path = "handoff"
    /\ IsSet(Val(result.agentResponse).handoffRequest)
    /\ Len(invocations) = 2

\* C3: isHandoffAllowed(target, chain) is true exactly when target does not
\* occur in chain and chain.length < maxDepth; ("hr", ["hr"]) is false,
\* ("legal", ["hr"]) is true when maxDepth >= 2, ("legal", ["hr","legal"]) is
\* false for every maxDepth.
C3_IsHandoffAllowed ==
    IsSet(haResult) =>
        /\ Val(haResult) = (haTarget \notin Range(haChain) /\ Len(haChain) < maxDepth)
        /\ (haTarget = "hr" /\ haChain = <<"hr">>) => ~Val(haResult)
        /\ (haTarget = "legal" /\ haChain = <<"hr">> /\ maxDepth >= 2) => Val(haResult)
        /\ (haTarget = "legal" /\ haChain = <<"hr", "legal">>) => ~Val(haResult)

\* C3 witness: a target that is refused only because it is already in the chain.
C3_Witness ==
    /\ haResult = Some(FALSE)
    /\ haTarget = "legal"
    /\ haChain = <<"hr", "legal">>
    /\ maxDepth = 3

\* C4: in the fan-out every item whose Agent resolved has that Agent invoked
\* exactly once with the item's own subQuery.
C4_EverySubQueryInvoked ==
    tasks # <<>> =>
        \A i \in 1..Len(Val(classification.intents)) :
            LET item == Val(classification.intents)[i] IN
            item.intent \in Range(agents) =>
                Cardinality({k \in 1..Len(invocations) :
                    invocations[k] = Invocation(AgentName(item.intent), item.subQuery)}) = 1

AnyTask(status) == \E j \in 1..Len(tasks) : tasks[j].status = status

\* C5: the fan-out is all-or-nothing: once one Agent's invoke has rejected,
\* process has rejected, merge has not been called and no response is returned,
\* whatever the siblings do afterwards.
C5_AllOrNothing ==
    AnyTask("failed") =>
        /\ Rejected
        /\ mergeCalls = 0
        /\ result.agentResponse = Unset

\* C5 witness: one Agent failed, a sibling answered, and process has rejected.
C5_Witness ==
    /\ Rejected
    /\ path = "multi"
    /\ AnyTask("failed")
    /\ AnyTask("ok")
    /\ ~AnyTask("pending")

\* C6: in every response exactly one of intent and intents is set: intent alone
\* on the empty-input, single-topic and handoff paths, intents alone on the
\* multi-topic path.
C6_ExactlyOneOfIntentIntents ==
    Responded =>
        /\ IsSet(result.intent) # IsSet(result.intents)
        /\ IsSet(result.intents) <=> path = "multi"

\* C6, amended: intents is set exactly on the multi-topic path, where intent is
\* set as well (primaryIntent, else the first item's intent); on the other
\* paths intents is unset and intent is the intent the path reports.
C6_IntentsOnlyOnMultiTopic ==
    Responded =>
        /\ IsSet(result.intents) <=> path = "multi"
        /\ path = "multi" =>
            /\ IsSet(result.intent)
            /\ result.intent = IF IsSet(classification.primaryIntent)
                               THEN classification.primaryIntent
                               ELSE Some(Val(classification.intents)[1].intent)
        /\ path \in {"empty", "handoff", "handoff-unavailable"} => IsSet(result.intent)
        /\ path \in {"single", "fallback"} => result.intent = classification.intent

\* C6 witness: a multi-topic response with both intent and intents set.
C6_Witness ==
    /\ Responded
    /\ path = "multi"
    /\ IsSet(result.intent)
    /\ IsSet(result.intents)
    /\ ~IsSet(classification.primaryIntent)

\* C7: classifyMultiIntent returns a wrapper only with
\* requiresMultipleAgents = true; with false the result is a plain
\* IntentClassification.
C7_TwoShapes ==
    (ChainsCalled = <<"multi">> /\ IsSet(classification.requiresMultipleAgents)) =>
        /\ Val(classification.requiresMultipleAgents)
        /\ ~IsSet(classification.intent) => pc # "single"

\* C8: once the originating Agent has answered, no failure of the handoff step
\* makes process reject.
C8_HandoffNeverHardError ==
    (Done /\ HandoffRequested) => result.kind = "response"

\* C8, amended: a handoff whose target cannot be resolved (no Agent is found)
\* makes process return the answer obtained so far; process rejects after a
\* handoffRequest only when resolving the target threw or the target's invoke
\* failed.
C8_UnresolvedTargetDegrades ==
    (Done /\ HandoffRequested) =>
        /\ Unresolvable(RequestedAgent) =>
            /\ result.kind = "response"
            /\ result.agentResponse = Some(previousResponse)
        /\ result.kind = "rejected" =>
            \/ HandoffInvocations # {}
            \/ \E r \in GetAgentByIntent(RequestedAgent, instances) : r.status = "threw"

\* C8 witness: lazy mode, the requested Agent has no factory.
C8_Witness ==
    /\ Responded
    /\ HandoffRequested
    /\ mode = "lazy"
    /\ RequestedAgent = "it"
    /\ Unresolvable("it")

\* C9: a handoff to an Agent that cannot be resolved invokes no further Agent
\* and returns the pre-handoff response unchanged, handoffOccurred = false,
\* no handoffChain.
C9_UnavailableTarget ==
    (Done /\ HandoffRequested /\ Unresolvable(RequestedAgent)) =>
        /\ result.kind = "response"
        /\ Len(invocations) = 1
        /\ Val(result.agentResponse) =
             AgentResponse(invocations[1].agent, QuestionQuery(question),
                           Some(RequestedAgent))
        /\ result.handoffOccurred = Some(FALSE)
        /\ result.handoffChain = Unset

\* C9 witness: the HR Agent asks for "general", which no Agent serves.
C9_Witness ==
    /\ Responded
    /\ HandoffRequested
    /\ mode = "eager"
    /\ previousResponse.agent = "hr"
    /\ RequestedAgent = "general"
    /\ result.handoffOccurred = Some(FALSE)

\* C10: every rejection of process is an OrchestratorError.
C10_RejectionsAreOrchestratorErrors ==
    Rejected => result.error = Some("OrchestratorError")

BlankQuestion == pc # "idle" /\ \A i \in 1..Len(question) : question[i] = " "

\* C12: for an empty or whitespace-only question the Classifier is never
\* invoked and no Agent but the IT Agent is, once, with the clarification
\* prompt; the response process returns has intent "it", confidence 0.5 and the
\* IT Agent's answer.
C12_EmptyQuestionGuard ==
    BlankQuestion =>
        /\ classifierCalls = <<>>
        /\ classification = NoClassification
        /\ Len(invocations) <= 1
        /\ \A k \in 1..Len(invocations) :
              invocations[k] = Invocation(AgentName("it"), EmptyPrompt)
        /\ Done => path = "empty"
        /\ Responded =>
            /\ result.intent = Some("it")
            /\ result.intents = Unset
            /\ result.classification.intent = Some("it")
            /\ result.classification.confidence = Some(EmptyQuestionConfidence)
            /\ result.routedTo = Some(AgentName("it"))
            /\ Len(invocations) = 1
            /\ Val(result.agentResponse).agent = AgentName("it")
            /\ Val(result.agentResponse).query = EmptyPrompt

\* C12 witness: a whitespace-only question answered by the IT Agent.
C12_Witness ==
    /\ Responded
    /\ question = <<" ", " ">>
    /\ result.intent = Some("it")
    /\ result.classification.confidence = Some(EmptyQuestionConfidence)
    /\ Len(invocations) = 1

\* The request took the single-topic branch of process().
SingleTopic == classification # NoClassification /\ ~RequiresMultipleAgents(classification)

\* C13: on the single-topic path, when the classified intent has no resolvable
\* Agent, the only Agent invoked is the IT Agent, once, with the original
\* question; its response is what process returns, with handoffOccurred and
\* handoffChain unset and no handoff executed, whether or not that response
\* carries a handoffRequest.
C13_FallbackSkipsHandoff ==
    (Done /\ SingleTopic /\ Unresolvable(KeyOf(classification.intent))) =>
        /\ path = "fallback"
        /\ Len(invocations) <= 1
        /\ \A k \in 1..Len(invocations) :
              invocations[k] = Invocation(AgentName("it"), QuestionQuery(question))
        /\ ~HandoffRequested
        /\ Responded =>
            /\ Len(invocations) = 1
            /\ Val(result.agentResponse).agent = AgentName("it")
            /\ Val(result.agentResponse).query = QuestionQuery(question)
            /\ result.handoffOccurred = Unset
            /\ result.handoffChain = Unset
            /\ result.classification = classification

\* C13 witness: the IT Agent answered for "general" and asked for a handoff,
\* which was not followed.
C13_Witness ==
    /\ Responded
    /\ path = "fallback"
    /\ classification.intent = Some("general")
    /\ Val(result.agentResponse).handoffRequest = Some("hr")
    /\ result.handoffOccurred = Unset
    /\ Len(invocations) = 1

ReportedIntent ==
    IF IsSet(result.intent) THEN result.intent
    ELSE IF IsSet(result.intents) /\ Len(Val(result.intents)) > 0
         THEN Some(Val(result.intents)[1])
    ELSE Unset

\* typeof result.routedTo === "string" ? result.routedTo : result.routedTo[0]
FirstRoutedTo ==
    IF path # "multi" THEN result.routedTo
    ELSE IF Len(Val(result.routedTo)) > 0 THEN Some(Val(result.routedTo)[1])
    ELSE Unset

\* The intents of the classification's items that have a resolvable Agent, in order.
ResolvedItemIntents ==
    SelectSeq([i \in 1..Len(Val(classification.intents)) |->
                  Val(classification.intents)[i].intent],
              LAMBDA i : ~Unresolvable(i))

\* C15: in every response the reported intent (intent, or else intents[0])
\* equals the agent routed to (routedTo, or routedTo[0]).
C15_IntentEqualsRoutedTo ==
    Responded => ReportedIntent = FirstRoutedTo

\* C15, amended: on the empty-input path, on the single-topic path when the
\* classified intent's own Agent answered, and after an executed handoff,
\* routedTo is the name of the Agent that serves the reported intent, which is
\* the intent itself for Agents named after their intent; after a degraded
\* handoff both are the originating Agent's name.  On the fallback path
\* routedTo is "it" and intent is the classified intent, which is never "it"
\* there.  On the multi-topic path intent is primaryIntent (else the first
\* item's intent) and routedTo[0] is the intent of the first item whose Agent
\* resolved.
C15_IntentAndRouting ==
    Responded =>
        /\ path \in {"empty", "single", "handoff"} =>
            /\ IsSet(result.intent)
            /\ FirstRoutedTo = Some(AgentName(Val(ReportedIntent)))
            /\ agentNames = IntentNames => ReportedIntent = FirstRoutedTo
        /\ path = "handoff-unavailable" =>
            /\ IsSet(result.intent)
            /\ ReportedIntent = FirstRoutedTo
        /\ path = "fallback" =>
            /\ result.routedTo = Some("it")
            /\ result.intent = classification.intent
            /\ result.intent # Some("it")
            /\ ReportedIntent # FirstRoutedTo
        /\ path = "multi" =>
            /\ result.intent = IF IsSet(classification.primaryIntent)
                               THEN classification.primaryIntent
                               ELSE Some(Val(classification.intents)[1].intent)
            /\ FirstRoutedTo = Some(Head(ResolvedItemIntents))

\* C15 witness: a question classified "general" is answered by the IT Agent.
C15_Witness ==
    /\ Responded
    /\ path = "fallback"
    /\ result.intent = Some("general")
    /\ result.routedTo = Some("it")

\* C16: every response reports a defined classification outcome: intent is
\* set to a value of the Intent enum, or intents is set to a list of such
\* values.
C16_DefinedClassificationOutcome ==
    Responded =>
        \/ IsSet(result.intent) /\ Val(result.intent) \in Intent
        \/ /\ IsSet(result.intents)
           /\ \A k \in 1..Len(Val(result.intents)) : Val(result.intents)[k] \in Intent

\* The names of the Agents invoked for the request, in invocation order.
InvokedAgentNames == [k \in 1..Len(invocations) |-> invocations[k].agent]

\* C17: on the multi-topic path routedTo is the list of the names of the
\* Agents that were invoked, one entry per invoked Agent, each that Agent's own
\* name.
C17_RoutedToInvokedAgentNames ==
    (Responded /\ path = "multi") => Val(result.routedTo) = InvokedAgentNames

\* mergeResults has returned a MergedResponse.
Merged == mMerged.status = "merged"
MergedResponse == Val(mMerged.response)

\* The sum of the totalMs of the first n entries of results.
RECURSIVE TotalMsOfFirst(_, _)
TotalMsOfFirst(res, n) ==
    IF n = 0 THEN 0 ELSE TotalMsOfFirst(res, n - 1) + res[n].response.totalMs

\* C18: in a MergedResponse timings.executionMs is the sum of the Agents'
\* execution times, timings.mergeMs is the time spent merging and
\* timings.totalMs = executionMs + mergeMs.
C18_TimingContract ==
    Merged =>
        /\ MergedResponse.timings.executionMs = TotalMsOfFirst(mResults, Len(mResults))
        /\ MergedResponse.timings.mergeMs = mMergeTime
        /\ MergedResponse.timings.totalMs =
             MergedResponse.timings.executionMs + MergedResponse.timings.mergeMs

\* C19: under every strategy timings.totalMs of the MergedResponse is the sum
\* of the input responses' totalMs plus timings.mergeMs.
C19_TotalMs ==
    Merged =>
        /\ MergedResponse.mergeStrategy = mStrategy
        /\ MergedResponse.timings.mergeMs = mMergeTime
        /\ MergedResponse.timings.totalMs =
             TotalMsOfFirst(mResults, Len(mResults)) + MergedResponse.timings.mergeMs

\* C19 witness: a synthesis merge of two timed responses that took time itself.
C19_Witness ==
    /\ Merged
    /\ mStrategy = "llm_synthesis"
    /\ Len(mResults) = 2
    /\ \A j \in 1..2 : mResults[j].response.totalMs = 1
    /\ mMergeTime = 1
    /\ MergedResponse.timings.totalMs = 3

\* C20: the three strategies produce the same sources list for the same
\* results and sub-queries, with exactly one entry per resolved intent, which
\* carries that intent's agent name and sources.
C20_SourcesPerResolvedIntent ==
    Merged =>
        /\ \A st \in MergeStrategy :
              mergeResults(mResults, question, mSubQueries, st, mMergeTime).sources
                = MergedResponse.sources
        /\ \A j \in 1..Len(mResults) :
              Cardinality({k \in 1..Len(MergedResponse.sources) :
                             MergedResponse.sources[k].intent = mResults[j].intent}) = 1
        /\ \A k \in 1..Len(MergedResponse.sources) :
              \E j \in 1..Len(mResults) :
                /\ MergedResponse.sources[k].intent = mResults[j].intent
                /\ MergedResponse.sources[k].agent = mResults[j].response.agent
                /\ MergedResponse.sources[k].sources = mResults[j].response.sources

\* The positions of the sub-queries whose intent has an entry in results.
AnsweredPositions ==
    {j \in 1..Len(mSubQueries) : HasKey(mResults, mSubQueries[j].intent)}

\* The position in subQueries of the k-th answered sub-query.
AnsweredPosition(k) ==
    CHOOSE j \in AnsweredPositions :
        Cardinality({i \in AnsweredPositions : i <= j}) = k

\* C21: with the concatenation strategy the merged answer is one labelled
\* section per answered sub-query, in sub-query order, with a separator
\* between consecutive sections, and metadata.intents lists the sub-query
\* intents in sub-query order.
C21_ConcatenationSections ==
    (Merged /\ mStrategy = "concatenation") =>
        LET n == Cardinality(AnsweredPositions)
            answer == MergedResponse.answer
        IN /\ Len(answer) = IF n = 0 THEN 0 ELSE 2 * n - 1
           /\ \A k \in 1..n :
                 LET sq == mSubQueries[AnsweredPosition(k)]
                 IN /\ answer[2 * k - 1].intent = sq.intent
                    /\ answer[2 * k - 1].subQuery = sq.subQuery
                    /\ \E j \in 1..Len(mResults) :
                          /\ mResults[j].intent = sq.intent
                          /\ answer[2 * k - 1].answer = mResults[j].response
           /\ \A k \in 1..(n - 1) : answer[2 * k] = SectionSeparator
           /\ MergedResponse.intents =
                 [j \in 1..Len(mSubQueries) |-> mSubQueries[j].intent]

\* C21 witness: two sub-queries of different intents, answered in the opposite
\* order, are concatenated into two sections around one separator.
C21_Witness ==
    /\ Merged
    /\ mStrategy = "concatenation"
    /\ Len(mSubQueries) = 2
    /\ Len(mResults) = 2
    /\ mResults[1].intent = mSubQueries[2].intent
    /\ mResults[2].intent = mSubQueries[1].intent
    /\ Len(MergedResponse.answer) = 3
    /\ MergedResponse.answer[2] = SectionSeparator

\* The intents of the classified items, in order.
ItemIntents ==
    [i \in 1..Len(Val(classification.intents)) |-> Val(classification.intents)[i].intent]

\* processMultiTopic has finished its first loop over the items.
MultiTopicResolved ==
    \/ pc \in {"multi_run", "merge"}
    \/ Done /\ path = "multi"

C22_NothingResolved ==
    /\ Rejected
    /\ path = "multi"
    /\ Len(ItemIntents) = 2
    /\ \A i \in Range(ItemIntents) : Unresolvable(i)

\* The instance a caller's getAgent call returned.
Holds(c, name) ==
    /\ getAgentCalls[c].status = "returned"
    /\ getAgentCalls[c].name = name
    /\ IsSet(getAgentCalls[c].agent)

\* C23: whatever the interleaving of getAgent calls, an entry of the instance
\* cache is never replaced by another instance and never removed: every step
\* of a getAgent call leaves the entries that exist as they are.
C23_CacheAppendOnly ==
    [][ClearInstances
       \/ \A n \in RequestedNames :
             IsSet(instanceOf[n]) => instanceOf'[n] = instanceOf[n]]_vars

\* The race behind C23: two callers hold different instances for one name
\* although clearInstances never emptied the cache between their calls.
C23_TwoInstancesOfOneName ==
    /\ built = 2
    /\ \E n \in RequestedNames :
        /\ Holds(1, n) /\ Holds(2, n)
        /\ getAgentCalls[1].agent # getAgentCalls[2].agent
        /\ instanceOf[n] = Some(2)

\* C24: getAgentByIntent never throws, in eager and in lazy mode: it returns
\* an Agent or "not found" for every intent, so no request fails while
\* resolving an Agent.  A request that rejects before any Agent was invoked
\* rejects with the orchestrator's own error (classification failed, or the
\* fallback logic found no Agent either).
C24_GetAgentByIntentNeverThrows ==
    (Rejected /\ invocations = <<>>) => result.error = Some("OrchestratorError")

\* C24 in eager mode.
C24_EagerNeverThrows ==
    mode = "eager" => C24_GetAgentByIntentNeverThrows

\* The Agents' answers of the fan-out in the order of parallelMap's keys.
AnswersInKeyOrder ==
    [j \in 1..Len(tasks) |-> [intent |-> tasks[j].intent, response |-> tasks[j].response]]

\* The response process builds from the classification and the answers taken
\* in key order, the merge having taken as long as it did.
ResponseInKeyOrder ==
    MultiTopicResponse(classification, agents,
        mergeResults(AnswersInKeyOrder, question, Val(classification.intents),
                     OrchestratorMergeStrategy,
                     Val(result.agentResponse).timings.mergeMs))

\* C25: the response of a multi-topic request is determined by the
\* classification and the Agents' answers alone: answer, sources,
\* metadata.agents, metadata.intents and routedTo are the same whatever the
\* order in which the concurrent invocations completed.
C25_CompletionOrderIndependent ==
    (Responded /\ path = "multi") => result = ResponseInKeyOrder

\* C25 without metadata.agents: the other fields do not depend on the
\* completion order.
C25_AllButAgents ==
    (Responded /\ path = "multi") =>
        /\ result.routedTo = ResponseInKeyOrder.routedTo
        /\ result.intent = ResponseInKeyOrder.intent
        /\ result.intents = ResponseInKeyOrder.intents
        /\ [Val(result.agentResponse) EXCEPT !.agents = <<>>] =
             [Val(ResponseInKeyOrder.agentResponse) EXCEPT !.agents = <<>>]

\* process() is running: invoked and not yet settled.
Running == pc \notin {"idle", "done"}

\* The number of fan-out invocations that have not settled.
PendingTasks == Cardinality({j \in 1..Len(tasks) : tasks[j].status = "pending"})

\* An upper bound on the steps process() has left before it settles.
StepsLeft ==
    CASE pc = "classify" -> 2 * MaxItems + 4
      [] pc = "multi_resolve" -> 2 * Len(Val(classification.intents)) + 3 - resolveIdx
      [] pc = "multi_run" -> 1 + PendingTasks
      [] pc = "merge" -> 1
      [] pc = "single" -> 2
      [] pc = "handoff" -> 1
      [] pc = "empty" -> 1
      [] OTHER -> 0

\* The collaborator calls of the request stay within the claimed numbers.
BoundedCalls ==
    /\ ChainsCalled \in {<<>>, <<"multi">>, <<"multi", "single">>}
    /\ mergeCalls <= 1
    /\ (pc \in {"empty", "single", "handoff"}
          \/ (Done /\ path \in {"empty", "classify", "single", "fallback", "handoff",
                                  "handoff-unavailable"})) =>
            /\ Len(invocations) <= maxDepth
            /\ mergeCalls = 0
    /\ (pc \in {"multi_resolve", "multi_run", "merge"} \/ (Done /\ path = "multi")) =>
            /\ Len(invocations) \in {0, Len(agents)}
            /\ Len(agents) <= Len(Val(classification.intents))
            /\ mergeCalls > 0 => Responded

\* C26: every process() invocation settles after a bounded number of
\* collaborator calls: at most one multi-intent classification and one
\* single-intent fallback, at most maxDepth Agent invocations on the
\* single-topic path, one invocation per resolved Agent and one merge on the
\* multi-topic path; every step of a running request brings it closer to
\* settling, so there is no handoff or retry loop.
C26_BoundedCalls ==
    /\ []BoundedCalls
    /\ [][Running => (StepsLeft' < StepsLeft)]_vars

\* C26 witness: the longest single-topic request: both classifier chains
\* were called, the Agent answered, one handoff was executed.
C26_Witness ==
    /\ Responded
    /\ path = "handoff"
    /\ ChainsCalled = <<"multi", "single">>
    /\ Len(invocations) = maxDepth

\* The stored positions extractConversationHistory may report: the last
\* HistoryWindow entries that are messages with content.
ReportablePositions ==
    IF memory.kind # "array" THEN {}
    ELSE {i \in 1..Len(memory.chatHistory) :
            /\ i > Len(memory.chatHistory) - HistoryWindow
            /\ memory.chatHistory[i].form # "other"
            /\ memory.chatHistory[i].content # <<>>}

\* C27: whatever the memory returns or throws, extractConversationHistory
\* returns: no history, or a list of at most 10 turns, in stored order, none
\* with empty content, taken from the last 10 stored entries.  It never
\* throws: when the extraction fails the Classifier gets no history.
C27_HistoryHandedOver ==
    historyCall # "pending" =>
        /\ historyCall = "returned"
        /\ memory.kind \in {"throws", "getTypeThrows"} => conversationHistory = Unset
        /\ ReportablePositions = {} => conversationHistory = Unset
        /\ IsSet(conversationHistory) =>
              LET history == Val(conversationHistory)
              IN /\ Len(history) <= HistoryWindow
                 /\ Len(history) = Cardinality(ReportablePositions)
                 /\ \A j \in 1..Len(history) :
                       /\ history[j].content # <<>>
                       /\ history[j].content[1] \in ReportablePositions
                       /\ history[j].role \in {"user", "assistant", "system"}
                 /\ \A j, k \in 1..Len(history) :
                       j < k => history[j].content[1] < history[k].content[1]

\* C27 witness: more than ten stored messages, one of the last ten empty:
\* the nine others are handed over, the oldest entry is dropped.
C27_Witness ==
    /\ historyCall = "returned"
    /\ memory.kind = "array"
    /\ Len(memory.chatHistory) = HistoryWindow + 1
    /\ memory.chatHistory[1].content # <<>>
    /\ IsSet(conversationHistory)
    /\ Len(Val(conversationHistory)) = HistoryWindow - 1
    /\ Val(conversationHistory)[1].content = <<2>>

\* The failure case of C27: the memory threw, the call returned no history.
C27_ExtractionFailed ==
    /\ historyCall = "returned"
    /\ memory.kind = "throws"
    /\ conversationHistory = Unset

\* The MergedResponse of a multi-topic response.
MergedOf(r) == Val(r.agentResponse)

\* metadata.intents, metadata.agents and sources of m have one entry per
\* contributor, in one order.
Aligned(m) ==
    /\ Len(m.intents) = Len(m.sources)
    /\ Len(m.agents) = Len(m.sources)
    /\ \A i \in 1..Len(m.sources) :
          /\ i <= Len(m.intents) /\ m.sources[i].intent = m.intents[i]
          /\ i <= Len(m.agents) /\ m.sources[i].agent = m.agents[i]

\* C28: in every MergedResponse process returns, metadata.intents,
\* metadata.agents and sources have the same length and describe the same
\* contributor at every position, also when classified items were skipped
\* for want of an Agent.
C28_AlignedContributors ==
    (Responded /\ path = "multi") => Aligned(MergedOf(result))

\* C28 for requests whose items have distinct intents, all resolved, and
\* whose invocations completed in the order of the items.
C28_AlignedWhenNothingSkipped ==
    (/\ Responded /\ path = "multi"
     /\ NoDuplicates(ItemIntents)
     /\ \A i \in Range(ItemIntents) : ~Unresolvable(i)
     /\ \A j \in 1..Len(results) : results[j].intent = tasks[j].intent)
        => Aligned(MergedOf(result))

\* Initialization i was started after the last reset and has rejected.
RejectedSinceReset(i) ==
    /\ i \in 1..Len(initializations)
    /\ initializations[i].status = "rejected"
    /\ initializations[i].epoch = resets

\* C29: a failed initialization is not retried on its own: once an
\* initialization has rejected and until resetAgents() is called, every
\* initializeAgents() call returns that initialization's rejected promise and
\* starts no new initialization.
C29_FailedInitializationSticks ==
    [][InitializeAgents =>
         \A i \in 1..Len(initializations) :
            RejectedSinceReset(i) =>
                lastCall' = InitializeCall("promise", i, FALSE)]_vars

\* C29 as long as no initialization started before a reset is still pending
\* or has settled after it.
C29_SticksWithoutStaleInitializations ==
    [][(InitializeAgents /\ resets = 0) =>
         \A i \in 1..Len(initializations) :
            RejectedSinceReset(i) =>
                lastCall' = InitializeCall("promise", i, FALSE)]_vars

\* The case of C29: a call made after a rejection got the rejected promise.
C29_RejectionReturnedAgain ==
    /\ resets = 0
    /\ Len(initializations) = 1
    /\ initializations[1].status = "rejected"
    /\ lastCall = InitializeCall("promise", 1, FALSE)

\* C30: an initialization that was in flight when resetAgents() was called
\* never becomes the cached orchestrator: the cached orchestrator, and so the
\* orchestrator every call after the reset gets, was built by an
\* initialization started after the last reset.
C30_NoStaleOrchestrator ==
    /\ IsSet(cachedOrchestrator) =>
          initializations[Val(cachedOrchestrator)].epoch = resets
    /\ IsSet(initializationPromise) =>
          initializations[Val(initializationPromise)].epoch = resets

====
